---- MODULE Spec2Model ----
(***************************************************************************)
(* Edition collection pipeline of morning-stack: the cache-aside store,    *)
(* the eleven source fetchers, the score normalizer, the top-N selector    *)
(* and the cron collection route with its Edition Store.                   *)
(***************************************************************************)
EXTENDS Integers, Sequences, FiniteSets, TLC

VARIABLES
    clock,      \* seconds since Monday 00:00 Asia/Tokyo
    advances,   \* number of clock advances taken so far
    redis,      \* TRUE iff the Upstash env vars are set (cache client non-null)
    cache,      \* key -> [present, val, exp]: the Redis key space
    unhandled,  \* TRUE once a fire-and-forget cacheSet promise has rejected
    world,      \* per fetcher: how its upstream, cache key and credential behave
    calls,      \* fetcher calls running step by step (one per caller)
    cronSecret, \* TRUE iff CRON_SECRET is configured
    editions,   \* rows of the editions table, in insertion order (id = index)
    articles,   \* rows of the articles table, in insertion order
    inv,        \* GET /api/cron/collect invocations
    unit,       \* one application of normalizeScores and selectTopN to a list
    reader,     \* one call of getEdition or getLatestEdition by a page render
    hiddenItems,   \* rows of the hidden_items table of the signed-in user
    hiddenState,   \* the hidden slice of the client's store
    hides,         \* hideItem calls and the handleHide that awaits each
    bookmarks,     \* articles the signed-in user has a bookmarks row for
    bookmarkedIds, \* the bookmarks slice of the client's store
    marks          \* handleBookmark calls and the server action of each

vars == <<clock, advances, redis, cache, unhandled, world, calls,
          cronSecret, editions, articles, inv, unit, reader,
          hiddenItems, hiddenState, hides, bookmarks, bookmarkedIds, marks>>

envVars == <<redis, world, cronSecret>>
dbVars == <<editions, articles>>
hideVars == <<hiddenItems, hiddenState, hides>>
markVars == <<bookmarks, bookmarkedIds, marks>>
appVars == <<reader, hideVars, markVars>>
pipelineVars == <<clock, advances, cache, unhandled, calls, envVars, unit, dbVars, inv>>

(***************************************************************************)
(* Bounds of the model                                                     *)
(***************************************************************************)
MaxCalls == 2
MaxAdvances == 3
MaxInvocations == 2
MaxLen == 3
TickSeconds == 3600

(***************************************************************************)
(* Program constants                                                       *)
(***************************************************************************)
CACHE_TTL == 3600
WEATHER_CACHE_TTL == 1800
CACHE_TTL_MARKET_OPEN == 900
CACHE_TTL_MARKET_CLOSED == 21600
MAX_RETRIES == 3
TOP_N == 5
MAX_ARTICLES == 5
GITHUB_SLICE == 5

ArticleSources ==
    <<"hackernews", "github", "github_prs", "reddit", "tech_rss",
      "hatena", "bluesky", "youtube", "producthunt">>

Fetchers == ArticleSources \o <<"weather", "stocks">>

SeqRange(s) == {s[i] : i \in 1..Len(s)}

FetcherSet == SeqRange(Fetchers)

\* one key shared by all fetchers
CACHE_KEY_shared(s) == "hackernews"

CACHE_KEY(s) == s

(***************************************************************************)
(* Generic sequence helpers                                                *)
(***************************************************************************)
Min(a, b) == IF a < b THEN a ELSE b

Take(s, n) == SubSeq(s, 1, Min(n, Len(s)))

RECURSIVE InsertDesc(_, _, _)
\* insert x behind every element whose key is >= x's key (stable, descending)
InsertDesc(s, x, field) ==
    IF s = <<>> THEN <<x>>
    ELSE IF Head(s)[field] >= x[field]
         THEN <<Head(s)>> \o InsertDesc(Tail(s), x, field)
         ELSE <<x>> \o s

RECURSIVE SortDesc(_, _)
\* Array.prototype.sort((a, b) => b.f - a.f): stable, descending by field f
SortDesc(s, field) ==
    IF s = <<>> THEN <<>>
    ELSE InsertDesc(SortDesc(SubSeq(s, 1, Len(s) - 1), field), s[Len(s)], field)


(***************************************************************************)
(* Cache-aside store (lib/cache.ts)                                        *)
(***************************************************************************)
NoEntry == [present |-> FALSE, val |-> <<>>, exp |-> 0]

\* an entry written with { ex: ttl } can be read strictly before its expiry
Fresh(e, now) == e.present /\ now < e.exp

\* an entry whose TTL has run out but that no later write has replaced
Expired(e, now) == e.present /\ now >= e.exp

\* a cacheGet that reports every key as absent
cacheGet_absent(c, key, now, hasClient, ok) == [st |-> "null", val |-> <<>>]

\* cacheGet(key): null without a client, the client's answer otherwise;
\* an error of the client is not caught and rejects the returned promise
cacheGet(c, key, now, hasClient, ok) ==
    IF ~hasClient THEN [st |-> "null", val |-> <<>>]
    ELSE IF ~ok THEN [st |-> "throw", val |-> <<>>]
    ELSE IF Fresh(c[key], now) THEN [st |-> "hit", val |-> c[key].val]
    ELSE [st |-> "null", val |-> <<>>]

\* cacheSet(key, value, ttl): the store after the call; without a client, or
\* when the client fails, nothing is written
cacheSet(c, key, value, ttl, now, hasClient, ok) ==
    IF hasClient /\ ok
    THEN [c EXCEPT ![key] = [present |-> TRUE, val |-> value, exp |-> now + ttl]]
    ELSE c

\* a cacheSet whose promise rejects: callers use `void cacheSet(...)`
cacheSetRejects(hasClient, ok) == hasClient /\ ~ok

(***************************************************************************)
(* Source fetchers (lib/sources/*.ts)                                      *)
(***************************************************************************)
\* fetchers whose upstream call goes through fetchWithRetry
HasRetry(s) == s \in {"github", "github_prs"}

\* fetchers that need an API key or token from the environment
NeedsCredential(s) == s \in {"youtube", "producthunt", "weather"}

\* fetchers that fan out to several upstream requests with Promise.allSettled
NumSubs(s) ==
    IF s = "github_prs" THEN 2
    ELSE IF s = "tech_rss" THEN 3
    ELSE 1

Aggregated(s) == NumSubs(s) > 1

\* the number of items a fetcher asks its upstream for or truncates to:
\* hitsPerPage=5, per_page=5 and slice(0, 5), per_page=10, TOP_N,
\* MAX_ARTICLES (twice), first: 5, POST_LIMIT, maxResults=3
FetcherCap(s) ==
    CASE s = "github_prs" -> 10
      [] s \in {"bluesky", "youtube"} -> 3
      [] OTHER -> 5

\* fetchers that treat an empty parsed result as a failure
ThrowsOnEmpty(s) == s \in {"tech_rss", "hatena"}

Article(s, id, score, date) ==
    [source |-> s, externalId |-> id, score |-> score, date |-> date]

MapItem(s, sub, it) ==
    IF s = "github_prs" THEN Article(s, 100 * sub + it.id, it.score, 0)
    ELSE IF s = "tech_rss" THEN Article(s, 100 * sub + it.id, 0, it.date)
    ELSE Article(s, it.id, it.score, 0)

MapItems(s, sub, items) == [i \in 1..Len(items) |-> MapItem(s, sub, items[i])]

IsValid(it) == it.valid

\* the articles one upstream response is parsed into
MapSub(s, sub, items) ==
    CASE s = "github" -> MapItems(s, sub, Take(items, GITHUB_SLICE))
      [] s = "github_prs" -> MapItems(s, sub, SelectSeq(items, IsValid))
      [] s = "reddit" ->
            MapItems(s, sub, Take(SortDesc(SelectSeq(items, IsValid), "score"), TOP_N))
      [] s = "tech_rss" -> MapItems(s, sub, SelectSeq(items, IsValid))
      [] s = "hatena" ->
            Take(SortDesc(MapItems(s, sub, SelectSeq(items, IsValid)), "score"),
                 MAX_ARTICLES)
      [] s = "weather" -> <<Article(s, 0, 0, 0)>>
      [] OTHER -> MapItems(s, sub, items)

\* what is done with the merged result of all upstream requests
PostProcess(s, arts) ==
    IF s = "tech_rss" THEN Take(SortDesc(arts, "date"), MAX_ARTICLES) ELSE arts

\* getMarketAwareTTL(): 15 minutes while JPX or NYSE/NASDAQ may be open
getMarketAwareTTL(now) ==
    LET utc == now + 7 * 86400 - 9 * 3600
        utcDay == (utc \div 86400) % 7      \* 0 = Sunday (clock 0 is a Monday)
        utcTotalMinutes == (utc % 86400) \div 60
    IN  IF utcDay = 0 \/ utcDay = 6 THEN CACHE_TTL_MARKET_CLOSED
        ELSE IF utcTotalMinutes >= 0 /\ utcTotalMinutes < 6 * 60
             THEN CACHE_TTL_MARKET_OPEN
        ELSE IF utcTotalMinutes >= 13 * 60 + 30 /\ utcTotalMinutes < 21 * 60
             THEN CACHE_TTL_MARKET_OPEN
        ELSE CACHE_TTL_MARKET_CLOSED

TTLOf(s, now) ==
    IF s = "weather" THEN WEATHER_CACHE_TTL
    ELSE IF s = "stocks" THEN getMarketAwareTTL(now)
    ELSE CACHE_TTL

Pending == [st |-> "pending", val |-> <<>>]
Fulfilled(v) == [st |-> "fulfilled", val |-> v]
Rejected == [st |-> "rejected", val |-> <<>>]

\* a fetcher call right after it was invoked: it runs synchronously up to its
\* first await; fetchWeather checks its API key before it touches the cache
NewCall(s, hasCred) ==
    [src |-> s, cred |-> hasCred, attempt |-> 0, sub |-> 1, acc |-> <<>>,
     reqs |-> 0, called |-> FALSE, nOk |-> 0, nRead |-> 0, nWrite |-> 0,
     miss |-> "none", last |-> "none",
     pc |-> IF s = "weather" /\ ~hasCred THEN "done" ELSE "read1",
     out |-> IF s = "weather" /\ ~hasCred THEN Fulfilled(<<>>) ELSE Pending]

Done(c, o) == [c EXCEPT !.pc = "done", !.out = o]

\* step 1: the first cache read, then the credential guard
StepRead1(c, store, now, hasClient, e) ==
    LET r == cacheGet(store, CACHE_KEY(c.src), now, hasClient, e.cacheOk)
        c1 == [c EXCEPT !.nRead = @ + 1,
                        !.miss = IF r.st # "null" THEN "none"
                                 ELSE IF hasClient /\
                                         Expired(store[CACHE_KEY(c.src)], now)
                                 THEN "expired" ELSE "absent"]
    IN  [store |-> store, rejected |-> FALSE,
         c |-> CASE r.st = "throw" -> Done(c1, Rejected)
                 [] r.st = "hit" -> Done(c1, Fulfilled(r.val))
                 [] OTHER ->
                      IF NeedsCredential(c.src) /\ ~c.cred
                      THEN Done(c1, Fulfilled(<<>>))
                      ELSE [c1 EXCEPT !.pc = "upstream"]]

\* the tail of the try block once every upstream request has answered
Finish(c, arts, store, now, hasClient, e) ==
    LET final == PostProcess(c.src, arts)
        writes == ~(c.src = "github_prs" /\ final = <<>>)
    IN  IF ThrowsOnEmpty(c.src) /\ final = <<>>
        THEN [store |-> store, rejected |-> FALSE,
              c |-> [c EXCEPT !.pc = "read2", !.acc = <<>>]]
        ELSE [store |-> IF writes
                        THEN cacheSet(store, CACHE_KEY(c.src), final,
                                      TTLOf(c.src, now), now, hasClient, e.cacheOk)
                        ELSE store,
              rejected |-> writes /\ cacheSetRejects(hasClient, e.cacheOk),
              c |-> Done([c EXCEPT !.acc = <<>>,
                                   !.nWrite = IF writes THEN @ + 1 ELSE @],
                         Fulfilled(final))]

\* how a fetcher tells upstream answers apart: res.ok, status 403/429, or
\* anything else (another status, a body that does not parse, a thrown fetch)
Outcome(kind) ==
    IF kind \in {"ok", "ratelimit"} THEN kind ELSE "error"

\* a retry loop that goes on for as long as the upstream rate-limits
ShouldRetry_unbounded(c, kind) == HasRetry(c.src) /\ kind = "ratelimit"

\* fetchWithRetry: (status 403 or 429) && attempt < MAX_RETRIES
ShouldRetry(c, kind) ==
    HasRetry(c.src) /\ kind = "ratelimit" /\ c.attempt < MAX_RETRIES

\* step 2: one upstream request and what its answer leads to
StepUpstream(c, store, now, hasClient, e) ==
    LET ok == e.resp.kind = "ok"
        c1 == [c EXCEPT !.reqs = @ + 1, !.called = TRUE,
                        !.nOk = IF ok THEN @ + 1 ELSE @,
                        !.last = Outcome(e.resp.kind)]
        retry == ShouldRetry(c, e.resp.kind)
        arts == IF ok THEN MapSub(c.src, c.sub, e.resp.items) ELSE <<>>
    IN  IF retry
        THEN [store |-> store, rejected |-> FALSE,
              c |-> [c1 EXCEPT !.attempt = @ + 1]]
        ELSE IF Aggregated(c.src)
        THEN IF c.sub < NumSubs(c.src)
             THEN [store |-> store, rejected |-> FALSE,
                   c |-> [c1 EXCEPT !.sub = @ + 1, !.attempt = 0, !.reqs = 0,
                                    !.acc = @ \o arts]]
             ELSE Finish(c1, c.acc \o arts, store, now, hasClient, e)
        ELSE IF ok
        THEN Finish(c1, arts, store, now, hasClient, e)
        ELSE [store |-> store, rejected |-> FALSE,
              c |-> [c1 EXCEPT !.pc = "read2"]]

\* step 3: the catch block re-reads the cache
StepRead2(c, store, now, hasClient, e) ==
    LET r == cacheGet(store, CACHE_KEY(c.src), now, hasClient, e.cacheOk)
        c1 == [c EXCEPT !.nRead = @ + 1]
    IN  [store |-> store, rejected |-> FALSE,
         c |-> CASE r.st = "throw" -> Done(c1, Rejected)
                 [] r.st = "hit" -> Done(c1, Fulfilled(r.val))
                 [] OTHER -> Done(c1, Fulfilled(<<>>))]

\* one step of a fetcher call under the environment's answer e
FStep(c, store, now, hasClient, e) ==
    CASE c.pc = "read1" -> StepRead1(c, store, now, hasClient, e)
      [] c.pc = "upstream" -> StepUpstream(c, store, now, hasClient, e)
      [] c.pc = "read2" -> StepRead2(c, store, now, hasClient, e)
      [] OTHER -> [store |-> store, rejected |-> FALSE, c |-> c]


(***************************************************************************)
(* Collection route (app/api/cron/collect/route.ts): pure helpers          *)
(***************************************************************************)
TOP_N_PER_SOURCE(s) ==
    CASE s = "github_prs" -> 10
      [] s \in {"bluesky", "youtube"} -> 3
      [] OTHER -> 5

SCORE_RANGES(s) ==
    CASE s \in {"hackernews", "hatena", "producthunt"} -> [min |-> 0, max |-> 500]
      [] s \in {"github", "reddit"} -> [min |-> 0, max |-> 5000]
      [] s \in {"github_prs", "tech_rss", "world_news"} -> [min |-> 0, max |-> 100]
      [] s = "bluesky" -> [min |-> 0, max |-> 200]
      [] s = "youtube" -> [min |-> 0, max |-> 1000000]

\* the values of the article_source enum of the articles table
articleSourceEnum ==
    {"hackernews", "github", "reddit", "producthunt", "tech_rss", "hatena",
     "bluesky", "youtube", "world_news"}

\* the n in 0..99 for which the double ((2n + 1) / 200) * 100 is below n + 0.5
FloatTiesDown == {14, 28, 56, 57}

\* Math.round(Math.min(100, Math.max(0, ((score - min) / (max - min)) * 100)))
\* in IEEE-754 double arithmetic, for integer scores and ranges: the quotient
\* is rounded to a double before it is multiplied by 100, which moves the
\* product across n + 0.5 only when the exact value is n + 0.5
NormalizeScore(score, range) ==
    LET num == (score - range.min) * 100
        den == range.max - range.min
        n == num \div den
    IN  IF num <= 0 THEN 0
        ELSE IF num >= 100 * den THEN 100
        ELSE IF (2 * num) % (2 * den) = den /\ n \in FloatTiesDown THEN n
        ELSE (2 * num + den) \div (2 * den)

normalizeScores(fetchedArticles, source) ==
    [i \in 1..Len(fetchedArticles) |->
        [fetchedArticles[i] EXCEPT
            !.score = NormalizeScore(@, SCORE_RANGES(source))]]

\* a selection that sorts equal scores in reverse fetch order
selectTopN_unstable(normalizedArticles, n) ==
    LET m == Len(normalizedArticles)
        reversed == [i \in 1..m |-> normalizedArticles[m + 1 - i]]
    IN  Take(SortDesc(reversed, "score"), n)

selectTopN(normalizedArticles, n) == Take(SortDesc(normalizedArticles, "score"), n)

\* determineEditionType(): morning before 12:00 Asia/Tokyo
determineEditionType(now) ==
    IF (now % 86400) \div 3600 < 12 THEN "morning" ELSE "evening"

\* getTodayDateString(): the calendar day in Asia/Tokyo
getTodayDateString(now) == now \div 86400

NULL == -1

SourceResult(s, status, count, error) ==
    [source |-> s, status |-> status, count |-> count, error |-> error]

\* a summary entry that reports every fulfilled fetch as a success
ArticleEntry_fulfilled(s, res) ==
    IF res.st = "fulfilled"
    THEN SourceResult(s, "success",
             Len(selectTopN(normalizeScores(res.val, s), TOP_N_PER_SOURCE(s))), "")
    ELSE SourceResult(s, "failure", 0, "rejected")

\* the loop over articleSources: summary entry of one settled article fetch
ArticleEntry(s, res) ==
    IF res.st = "fulfilled" /\ Len(res.val) > 0
    THEN SourceResult(s, "success",
             Len(selectTopN(normalizeScores(res.val, s), TOP_N_PER_SOURCE(s))), "")
    ELSE SourceResult(s, "failure", 0,
             IF res.st = "rejected" THEN "rejected" ELSE "No articles returned")

\* a contribution that is normalized but not truncated
Contribution_all(s, res) ==
    IF res.st = "fulfilled" /\ Len(res.val) > 0
    THEN SortDesc(normalizeScores(res.val, s), "score")
    ELSE <<>>

\* the articles one settled article fetch contributes to allArticles
Contribution(s, res) ==
    IF res.st = "fulfilled" /\ Len(res.val) > 0
    THEN selectTopN(normalizeScores(res.val, s), TOP_N_PER_SOURCE(s))
    ELSE <<>>

RECURSIVE CollectFrom(_, _)
\* allArticles after the loop has handled article sources k..9
CollectFrom(settled, k) ==
    IF k > Len(ArticleSources) THEN <<>>
    ELSE Contribution(ArticleSources[k], settled[k]) \o CollectFrom(settled, k + 1)

AllArticles(settled) == CollectFrom(settled, 1)

\* a summary that lists only the sources that delivered articles
ArticleEntries_delivered(settled) ==
    LET Delivered(entry) == entry.status = "success"
    IN  SelectSeq([k \in 1..Len(ArticleSources) |->
                      ArticleEntry(ArticleSources[k], settled[k])], Delivered)

ArticleEntries(settled) ==
    [k \in 1..Len(ArticleSources) |-> ArticleEntry(ArticleSources[k], settled[k])]

\* the two entries pushed for the widget fetches
WeatherEntry(res) ==
    IF res.st = "fulfilled" /\ res.val # <<>>
    THEN SourceResult("weather", "success", 1, "")
    ELSE SourceResult("weather", "failure", 0,
             IF res.st = "rejected" THEN "rejected" ELSE "No data")

StocksEntry(res) ==
    IF res.st = "fulfilled" /\ Len(res.val) > 0
    THEN SourceResult("stocks", "success", Len(res.val), "")
    ELSE SourceResult("stocks", "failure", 0,
             IF res.st = "rejected" THEN "rejected" ELSE "No data")

WidgetValue(weatherRes, stocksRes) ==
    <<[weather |-> IF weatherRes.st = "fulfilled" THEN weatherRes.val ELSE <<>>,
       stocks |-> IF stocksRes.st = "fulfilled" THEN stocksRes.val ELSE <<>>]>>

\* the row written for one collected article
ArticleRow(editionId, a) ==
    [editionId |-> editionId, source |-> a.source,
     externalId |-> a.externalId, score |-> a.score]

ArticleRows(editionId, list) ==
    [i \in 1..Len(list) |-> ArticleRow(editionId, list[i])]

\* the store rejects a batch that holds a value outside the column's enum
BatchAccepted(rows) == \A i \in 1..Len(rows) : rows[i].source \in articleSourceEnum

\* a row that is created as published
DraftRow_published(type, date) ==
    [type |-> type, date |-> date, status |-> "published", publishedAt |-> NULL]

\* values({ type, date, status: "draft" }): published_at stays null
DraftRow(type, date) ==
    [type |-> type, date |-> date, status |-> "draft", publishedAt |-> NULL]

\* a status update that leaves published_at alone
PublishedRow_noStamp(row, now) == [row EXCEPT !.status = "published"]

\* set({ status: "published", publishedAt: new Date() })
PublishedRow(row, now) ==
    [row EXCEPT !.status = "published", !.publishedAt = now]

InvIds == 1..MaxInvocations

NoResponse == [http |-> 0, status |-> "none", editionId |-> 0,
               articlesCollected |-> 0, sources |-> <<>>]

Response(http, status, editionId, n, sources) ==
    [http |-> http, status |-> status, editionId |-> editionId,
     articlesCollected |-> n, sources |-> sources]

\* an error answer that drops the per-source results
ErrorResponse_noSources(sources) == Response(500, "error", 0, 0, <<>>)

\* the catch block: status "error" with sourceResults as far as it was filled
ErrorResponse(sources) == Response(500, "error", 0, 0, sources)

IdleInv ==
    [pc |-> "idle", type |-> "none", date |-> 0, editionId |-> 0,
     settled |-> <<>>, sourceResults |-> <<>>, allArticles |-> <<>>,
     fault |-> FALSE, cache0 |-> <<>>, resp |-> NoResponse]

IdleUnit ==
    [pc |-> "idle", source |-> "none", n |-> 0, input |-> <<>>,
     normalized |-> <<>>, selected |-> <<>>, first |-> <<>>, applied |-> 0]

\* no call of getEdition or getLatestEdition is running
IdleReader ==
    [pc |-> "idle", fn |-> "none", type |-> "none", date |-> 0, id |-> 0,
     passed |-> {}, result |-> <<>>]

(***************************************************************************)
(* Hidden items and bookmarks: client store and server actions at rest     *)
(***************************************************************************)
MaxHides == 2
MaxMarks == 2

HideIds == 1..MaxHides

MarkIds == 1..MaxMarks

\* initialState of the hidden slice
NoHidden == [hiddenArticleIds |-> <<>>, hiddenSources |-> <<>>, hiddenTopics |-> <<>>]

IdleHide ==
    [pc |-> "idle", type |-> "none", id |-> "none", ui |-> FALSE,
     wasHidden |-> FALSE, result |-> "none"]

IdleMark ==
    [pc |-> "idle", id |-> "none", wasBookmarked |-> FALSE, result |-> "none"]

\* nobody reads an Edition, hides an item or toggles a bookmark
AppIdle ==
    /\ reader = IdleReader
    /\ hiddenItems = <<>>
    /\ hiddenState = NoHidden
    /\ hides = [k \in HideIds |-> IdleHide]
    /\ bookmarks = {}
    /\ bookmarkedIds = <<>>
    /\ marks = [k \in MarkIds |-> IdleMark]

(***************************************************************************)
(* Environment: upstream answers, cache health, time                       *)
(***************************************************************************)
RawItem(id, score, valid, date) ==
    [id |-> id, score |-> score, valid |-> valid, date |-> date]

\* an upstream answer with more items than any selection keeps
FloodPayload ==
    <<RawItem(1, 30, TRUE, 1), RawItem(2, 10, TRUE, 2), RawItem(3, 60, TRUE, 3),
      RawItem(4, 20, TRUE, 4), RawItem(5, 50, TRUE, 5), RawItem(6, 40, TRUE, 6)>>

\* upstream payloads the model draws from
Payloads ==
    { <<>>,
      <<RawItem(1, 250, TRUE, 2)>>,
      <<RawItem(1, 0, TRUE, 1), RawItem(2, 600, TRUE, 3), RawItem(3, 250, FALSE, 2)>>,
      FloodPayload }

\* ok: 2xx with a payload; ratelimit: HTTP 403/429; httperr: any other non-2xx;
\* malformed: a body the parser or the mapping throws on; neterr: fetch() throws
Responses ==
    [kind : {"ok"}, items : Payloads]
    \cup [kind : {"ratelimit", "httperr", "malformed", "neterr"}, items : {<<>>}]

Answers == [cacheOk : BOOLEAN, resp : Responses]

CallIds == 1..MaxCalls

IdleCall == [NewCall("none", TRUE) EXCEPT !.pc = "idle"]

\* a call whose caller has taken the result and moved on
Returned(s) == [IdleCall EXCEPT !.src = s, !.pc = "returned"]

StartClocks == {6 * 3600, 10 * 3600}

EmptyCache == [k \in FetcherSet \cup {"edition:widgets"} |-> NoEntry]

CredOf(s) == world[s] # "nocred"

\* worlds of the fetcher-level specification: only the credentials matter,
\* every other answer is drawn step by step
CredWorlds ==
    {[s \in FetcherSet |-> IF s \in missing THEN "nocred" ELSE "ok"] :
        missing \in {{}, {"youtube"}, {"producthunt"}, {"weather"}}}

InitFetch ==
    /\ clock \in StartClocks
    /\ advances = 0
    /\ redis \in BOOLEAN
    /\ cache = EmptyCache
    /\ unhandled = FALSE
    /\ world \in CredWorlds
    /\ calls = [k \in CallIds |-> IdleCall]
    /\ cronSecret = TRUE
    /\ editions = <<>>
    /\ articles = <<>>
    /\ inv = [i \in InvIds |-> IdleInv]
    /\ unit = IdleUnit
    /\ AppIdle

\* a caller invokes fetch<Source>() once the previous call has returned;
\* within one behaviour all calls go to the same fetcher and share its key
Call(k, s) ==
    /\ calls[k].pc = "idle"
    /\ \A j \in CallIds : j < k => calls[j].pc \in {"done", "returned"}
    /\ \A j \in CallIds : calls[j].pc # "idle" => calls[j].src = s
    /\ s # "stocks" => clock - advances * TickSeconds = 6 * 3600
    /\ \A x \in FetcherSet \ {s} : world[x] = "ok"
    /\ calls' = [j \in CallIds |->
                    IF j = k THEN NewCall(s, CredOf(s))
                    ELSE IF j < k THEN Returned(s)
                    ELSE calls[j]]
    /\ UNCHANGED <<clock, advances, cache, unhandled, envVars, unit, appVars, dbVars, inv>>

\* the call resumes at its pending await
FetchStep(k) ==
    /\ calls[k].pc \in {"read1", "upstream", "read2"}
    /\ \E e \in Answers :
          LET r == FStep(calls[k], cache, clock, redis, e)
          IN  /\ calls' = [calls EXCEPT ![k] = r.c]
              /\ cache' = r.store
              /\ unhandled' = (unhandled \/ r.rejected)
    /\ UNCHANGED <<clock, advances, envVars, unit, appVars, dbVars, inv>>

NoActive == \A i \in InvIds : inv[i].pc \in {"idle", "done"}

\* some request or fetcher call is still to come
MoreToCome ==
    /\ \E i \in InvIds : inv[i].pc = "idle"
    /\ \E k \in CallIds : calls[k].pc = "idle"

\* requests and fetcher calls made so far
Started ==
    Cardinality({i \in InvIds : inv[i].pc # "idle"})
    + Cardinality({k \in CallIds : calls[k].pc # "idle"})

\* time passes (between two requests to the route)
Advance ==
    /\ NoActive
    /\ MoreToCome
    /\ advances < MaxAdvances
    /\ advances < Started
    /\ advances' = advances + 1
    /\ clock' = clock + TickSeconds
    /\ UNCHANGED <<cache, unhandled, calls, envVars, unit, appVars, dbVars, inv>>

NextFetch ==
    \/ \E k \in CallIds, s \in FetcherSet : Call(k, s)
    \/ \E k \in CallIds : FetchStep(k)
    \/ Advance

SpecFetch == InitFetch /\ [][NextFetch]_vars

\* the calls of the fetchers that go through fetchWithRetry
InitRetry == InitFetch /\ clock = 6 * 3600 /\ world = [s \in FetcherSet |-> "ok"]

CallRetry(k, s) == HasRetry(s) /\ Call(k, s)

NextRetry ==
    \/ \E k \in CallIds, s \in FetcherSet : CallRetry(k, s)
    \/ \E k \in CallIds : FetchStep(k)
    \/ Advance

\* every pending await of a fetcher call settles: fetch() answers or throws,
\* the backoff timer fires, the cache client answers or throws
SpecRetry ==
    InitRetry /\ [][NextRetry]_vars /\ WF_vars(\E k \in CallIds : FetchStep(k))


(***************************************************************************)
(* Collection route: GET /api/cron/collect                                 *)
(***************************************************************************)
WIDGET_CACHE_KEY == "edition:widgets"
WIDGET_CACHE_TTL == 1800

OkPayload ==
    <<RawItem(1, 0, TRUE, 1), RawItem(2, 600, TRUE, 3), RawItem(3, 250, FALSE, 2)>>

\* how one fetcher's surroundings behave for a whole behaviour
Profiles == {"ok", "empty", "down", "limited", "cachefail"}

\* profiles only the one deviating fetcher can have
DeviantProfiles == {"nocred", "flood"}

ProfilesOf(s) ==
    IF NeedsCredential(s) THEN Profiles \cup DeviantProfiles
    ELSE Profiles \cup {"flood"}

\* all fetchers share a baseline, at most one deviates from it
Worlds ==
    {[s \in FetcherSet |-> IF s = x THEN b ELSE a] :
        a \in Profiles, x \in FetcherSet, b \in Profiles \cup DeviantProfiles}
    \cap {w \in [FetcherSet -> Profiles \cup DeviantProfiles] :
            \A s \in FetcherSet : w[s] \in ProfilesOf(s)}

AnswerOf(w) ==
    [cacheOk |-> w # "cachefail",
     resp |-> CASE w = "empty" -> [kind |-> "ok", items |-> <<>>]
                [] w = "down" -> [kind |-> "httperr", items |-> <<>>]
                [] w = "limited" -> [kind |-> "ratelimit", items |-> <<>>]
                [] w = "flood" -> [kind |-> "ok", items |-> FloodPayload]
                [] OTHER -> [kind |-> "ok", items |-> OkPayload]]

RECURSIVE RunCall(_, _, _, _, _, _)
\* a fetcher call run to completion under one fixed answer
RunCall(c, store, now, hasClient, e, rej) ==
    IF c.pc = "done" THEN [c |-> c, store |-> store, rejected |-> rej]
    ELSE LET r == FStep(c, store, now, hasClient, e)
         IN  RunCall(r.c, r.store, now, hasClient, e, rej \/ r.rejected)

FetchRun(s, store, now, hasClient, w) ==
    RunCall(NewCall(s, w # "nocred"), store, now, hasClient, AnswerOf(w), FALSE)

Init ==
    /\ clock = 6 * 3600
    /\ advances = 0
    /\ redis \in BOOLEAN
    /\ cache = EmptyCache
    /\ unhandled = FALSE
    /\ world \in Worlds
    /\ calls = [k \in CallIds |-> IdleCall]
    /\ cronSecret \in BOOLEAN
    /\ editions = <<>>
    /\ articles = <<>>
    /\ inv = [i \in InvIds |-> IdleInv]
    /\ unit = IdleUnit
    /\ AppIdle

\* the auth guard, then determineEditionType() and getTodayDateString()
Start(i, header) ==
    /\ inv[i].pc = "idle"
    /\ \A j \in InvIds : j < i => inv[j].pc # "idle"
    /\ inv' = [inv EXCEPT ![i] =
          IF cronSecret /\ header # "valid"
          THEN [@ EXCEPT !.pc = "done",
                         !.resp = Response(401, "unauthorized", 0, 0, <<>>)]
          ELSE [@ EXCEPT !.pc = "check",
                         !.type = determineEditionType(clock),
                         !.date = getTodayDateString(clock)]]
    /\ UNCHANGED <<clock, advances, cache, unhandled, calls, envVars, unit, appVars, dbVars>>

\* the existence check restricted to published editions
Existing_published(type, date) ==
    {e \in 1..Len(editions) :
        /\ editions[e].type = type /\ editions[e].date = date
        /\ editions[e].status = "published"}

\* rows matching where(and(eq(type), eq(date)))
Existing(type, date) ==
    {e \in 1..Len(editions) : editions[e].type = type /\ editions[e].date = date}

\* the existence check: select ... where type and date ... limit 1
Check(i) ==
    /\ inv[i].pc = "check"
    /\ IF Existing(inv[i].type, inv[i].date) # {}
       THEN \E e \in Existing(inv[i].type, inv[i].date) :
               inv' = [inv EXCEPT ![i].pc = "done",
                                  ![i].resp = Response(200, "skipped", e, 0, <<>>)]
       ELSE inv' = [inv EXCEPT ![i].pc = "insert"]
    /\ UNCHANGED <<clock, advances, cache, unhandled, calls, envVars, unit, appVars, dbVars>>

\* insert into editions ... status draft, returning id; then all eleven
\* fetchers are invoked
InsertDraft(i) ==
    /\ inv[i].pc = "insert"
    /\ \E dbOk \in BOOLEAN :
          IF dbOk
          THEN /\ editions' = Append(editions, DraftRow(inv[i].type, inv[i].date))
               /\ inv' = [inv EXCEPT ![i].pc = "fanout",
                                     ![i].editionId = Len(editions) + 1]
          ELSE /\ editions' = editions
               /\ inv' = [inv EXCEPT ![i].pc = "done", ![i].fault = TRUE,
                                     ![i].resp = ErrorResponse(<<>>)]
    /\ UNCHANGED <<clock, advances, cache, unhandled, calls, envVars, unit, appVars, articles>>

\* the next of the eleven fetches settles
Settle(i) ==
    /\ inv[i].pc = "fanout"
    /\ LET s == Fetchers[Len(inv[i].settled) + 1]
           r == FetchRun(s, cache, clock, redis, world[s])
       IN  /\ cache' = r.store
           /\ unhandled' = (unhandled \/ r.rejected)
           /\ inv' = [inv EXCEPT
                  ![i].settled = Append(@, r.c.out),
                  ![i].pc = IF Len(inv[i].settled) + 1 = Len(Fetchers)
                            THEN "persist" ELSE "fanout"]
    /\ UNCHANGED <<clock, advances, calls, envVars, unit, appVars, dbVars>>

\* the loop over the article sources and the batch insert
Persist(i) ==
    /\ inv[i].pc = "persist"
    /\ LET entries == ArticleEntries(inv[i].settled)
           all == AllArticles(inv[i].settled)
           rows == ArticleRows(inv[i].editionId, all)
       IN  IF all = <<>>
           THEN /\ articles' = articles
                /\ inv' = [inv EXCEPT ![i].pc = "publish",
                                      ![i].sourceResults = entries,
                                      ![i].allArticles = all]
           ELSE \E dbOk \in BOOLEAN :
                  IF dbOk /\ BatchAccepted(rows)
                  THEN /\ articles' = articles \o rows
                       /\ inv' = [inv EXCEPT ![i].pc = "publish",
                                             ![i].sourceResults = entries,
                                             ![i].allArticles = all]
                  ELSE /\ articles' = articles
                       /\ inv' = [inv EXCEPT
                              ![i].pc = "done",
                              ![i].fault = ~dbOk,
                              ![i].sourceResults = entries,
                              ![i].allArticles = all,
                              ![i].resp = ErrorResponse(entries)]
    /\ UNCHANGED <<clock, advances, cache, unhandled, calls, envVars, unit, appVars, editions>>

\* the widget entries, the widget cache write and the status update
Publish(i) ==
    /\ inv[i].pc = "publish"
    /\ \E dbOk \in BOOLEAN, cacheOk \in BOOLEAN :
          LET weatherResult == inv[i].settled[Len(ArticleSources) + 1]
              stockResult == inv[i].settled[Len(ArticleSources) + 2]
              sources == inv[i].sourceResults \o
                         <<WeatherEntry(weatherResult), StocksEntry(stockResult)>>
          IN  /\ cache' = cacheSet(cache, WIDGET_CACHE_KEY,
                                   WidgetValue(weatherResult, stockResult),
                                   WIDGET_CACHE_TTL, clock, redis, cacheOk)
              /\ unhandled' = (unhandled \/ cacheSetRejects(redis, cacheOk))
              /\ IF dbOk
                 THEN /\ editions' = [editions EXCEPT
                             ![inv[i].editionId] = PublishedRow(@, clock)]
                      /\ inv' = [inv EXCEPT
                             ![i].pc = "done",
                             ![i].sourceResults = sources,
                             ![i].resp = Response(200, "success", inv[i].editionId,
                                                  Len(inv[i].allArticles), sources)]
                 ELSE /\ editions' = editions
                      /\ inv' = [inv EXCEPT
                             ![i].pc = "done",
                             ![i].fault = TRUE,
                             ![i].sourceResults = sources,
                             ![i].resp = ErrorResponse(sources)]
    /\ UNCHANGED <<clock, advances, calls, envVars, unit, appVars, articles>>

\* the scheduler's next firing time: 06:00 and 17:00 Asia/Tokyo
NextCronTime(now) ==
    LET day == now \div 86400
        tod == now % 86400
    IN  IF tod < 6 * 3600 THEN day * 86400 + 6 * 3600
        ELSE IF tod < 17 * 3600 THEN day * 86400 + 17 * 3600
        ELSE (day + 1) * 86400 + 6 * 3600

\* time passes up to the next scheduled trigger
AdvanceToCron ==
    /\ NoActive
    /\ MoreToCome
    /\ advances < MaxAdvances
    /\ advances < Started
    /\ advances' = advances + 1
    /\ clock' = NextCronTime(clock)
    /\ UNCHANGED <<cache, unhandled, calls, envVars, unit, appVars, dbVars, inv>>

\* invocations may overlap
NextRace ==
    \/ \E i \in InvIds, h \in {"valid", "invalid"} : Start(i, h)
    \/ \E i \in InvIds : Check(i)
    \/ \E i \in InvIds : InsertDraft(i)
    \/ \E i \in InvIds : Settle(i)
    \/ \E i \in InvIds : Persist(i)
    \/ \E i \in InvIds : Publish(i)
    \/ Advance
    \/ AdvanceToCron

\* overlapping invocations are explored under the uniform worlds only
\* and under those in which only the pull-request fetcher deviates
InitRace ==
    /\ Init
    /\ \E a, b \in Profiles :
          world = [s \in FetcherSet |-> IF s = "github_prs" THEN b ELSE a]

SpecRace == InitRace /\ [][NextRace]_vars

\* a request arrives only when no other invocation is running
StartAlone(i, header) == NoActive /\ Start(i, header)

Next ==
    \/ \E i \in InvIds, h \in {"valid", "invalid"} : StartAlone(i, h)
    \/ \E i \in InvIds : Check(i)
    \/ \E i \in InvIds : InsertDraft(i)
    \/ \E i \in InvIds : Settle(i)
    \/ \E i \in InvIds : Persist(i)
    \/ \E i \in InvIds : Publish(i)
    \/ Advance
    \/ AdvanceToCron

Spec == Init /\ [][Next]_vars

\* the promises handed to Promise.allSettled, none settled yet
AllPending == [k \in 1..Len(Fetchers) |-> Pending]

Slots(settled) == IF settled = <<>> THEN AllPending ELSE settled

\* any one of the fetches that are still pending settles; cache0 keeps the
\* key space as it was when the fetches were started
SettleAny(i, k) ==
    /\ inv[i].pc = "fanout"
    /\ Slots(inv[i].settled)[k] = Pending
    /\ LET s == Fetchers[k]
           r == FetchRun(s, cache, clock, redis, world[s])
           next == [Slots(inv[i].settled) EXCEPT ![k] = r.c.out]
       IN  /\ cache' = r.store
           /\ unhandled' = (unhandled \/ r.rejected)
           /\ inv' = [inv EXCEPT
                  ![i].settled = next,
                  ![i].cache0 = IF inv[i].settled = <<>> THEN cache ELSE @,
                  ![i].pc = IF \A j \in 1..Len(Fetchers) : next[j] # Pending
                            THEN "persist" ELSE "fanout"]
    /\ UNCHANGED <<clock, advances, calls, envVars, unit, appVars, dbVars>>

\* the worlds under which the settling order is explored
InitOrder ==
    /\ Init
    /\ redis
    /\ cronSecret
    /\ \E w \in {<<"ok", "github_prs">>, <<"ok", "hackernews">>,
                   <<"empty", "hackernews">>} :
          world = [s \in FetcherSet |-> IF s = w[2] THEN "cachefail" ELSE w[1]]

NextOrder ==
    \/ \E i \in InvIds : StartAlone(i, "valid")
    \/ \E i \in InvIds : Check(i)
    \/ \E i \in InvIds : InsertDraft(i)
    \/ \E i \in InvIds, k \in 1..Len(Fetchers) : SettleAny(i, k)
    \/ \E i \in InvIds : Persist(i)
    \/ \E i \in InvIds : Publish(i)
    \/ AdvanceToCron

(***************************************************************************)
(* normalizeScores and selectTopN applied to drawn lists                   *)
(***************************************************************************)
\* raw scores around the range bounds and at exact halves of a point
RawScores == {0, 29, 115, 250, 600}

UnitSources == {"hackernews", "bluesky", "github"}

UnitKs == {1, 2, 3}

RawLists ==
    UNION {[1..len -> RawScores] : len \in 0..MaxLen}

\* the fetched list whose i-th article has raw score scores[i]
FetchedList(source, scores) ==
    [i \in 1..Len(scores) |-> Article(source, i, scores[i], 0)]

InitPure ==
    /\ clock = 6 * 3600
    /\ advances = 0
    /\ redis = FALSE
    /\ cache = EmptyCache
    /\ unhandled = FALSE
    /\ world = [s \in FetcherSet |-> "ok"]
    /\ calls = [k \in CallIds |-> IdleCall]
    /\ cronSecret = TRUE
    /\ editions = <<>>
    /\ articles = <<>>
    /\ inv = [i \in InvIds |-> IdleInv]
    /\ AppIdle
    /\ \E source \in UnitSources, n \in UnitKs, scores \in RawLists :
          unit = [IdleUnit EXCEPT !.pc = "input", !.source = source, !.n = n,
                                  !.input = FetchedList(source, scores)]

\* const normalized = normalizeScores(result.value, name)
Normalize ==
    /\ unit.pc = "input"
    /\ unit' = [unit EXCEPT !.pc = "normalized",
                            !.normalized = normalizeScores(unit.input, unit.source)]
    /\ UNCHANGED <<clock, advances, cache, unhandled, calls, envVars, dbVars, inv, appVars>>

\* const topN = selectTopN(normalized, n), applied up to twice to one list
Select ==
    /\ unit.pc \in {"normalized", "selected"}
    /\ unit.applied < 2
    /\ unit' = [unit EXCEPT
                  !.pc = "selected",
                  !.applied = @ + 1,
                  !.first = IF unit.applied = 0
                            THEN selectTopN(unit.normalized, unit.n) ELSE @,
                  !.selected = selectTopN(unit.normalized, unit.n)]
    /\ UNCHANGED <<clock, advances, cache, unhandled, calls, envVars, dbVars, inv, appVars>>

NextPure == Normalize \/ Select

SpecPure == InitPure /\ [][NextPure]_vars

\* requests arrive one after another, the fetches of a run settle in any order
SpecOrder == InitOrder /\ [][NextOrder]_vars


(***************************************************************************)
(* Properties                                                              *)
(***************************************************************************)
ArticlesOf(tbl, e) ==
    LET Mine(r) == r.editionId = e IN SelectSeq(tbl, Mine)

\* invocation j ran the idempotency check for the slot of the Edition that
\* the earlier invocation i had inserted
IsRerun(j, i) ==
    /\ i < j
    /\ inv[i].editionId # 0
    /\ inv[j].type # "none"
    /\ inv[j].type = inv[i].type
    /\ inv[j].date = inv[i].date

C1_State ==
    \A i, j \in InvIds :
        IsRerun(j, i) =>
            /\ inv[j].editionId = 0
            /\ Cardinality(Existing(inv[j].type, inv[j].date)) = 1
            /\ inv[j].pc = "done" =>
                  /\ inv[j].resp.status = "skipped"
                  /\ inv[j].resp.http = 200
                  /\ inv[j].resp.editionId = inv[i].editionId

C1_Step ==
    \A i, j \in InvIds :
        (IsRerun(j, i) /\ inv[j].pc \notin {"idle", "done"}) =>
            (editions' = editions /\ articles' = articles)

C2_AtMostOnePerSlot ==
    \A e1, e2 \in 1..Len(editions) :
        (editions[e1].type = editions[e2].type /\ editions[e1].date = editions[e2].date)
            => e1 = e2

C3_Step ==
    \A e \in 1..Len(editions) :
        /\ editions[e].status = "published" =>
              ArticlesOf(articles', e) = ArticlesOf(articles, e)
        /\ ArticlesOf(articles', e) # ArticlesOf(articles, e) =>
              /\ ArticlesOf(articles, e) = <<>>
              /\ editions[e].status = "draft"
              /\ editions'[e].status = "draft"

\* C3: the Article rows of an Edition are written in one batch while the
\* Edition is a draft, and no step changes the Article rows of a published
\* Edition.
C3_Immutable == [][C3_Step]_vars

C3_Witness ==
    \E e \in 1..Len(editions), i \in InvIds :
        /\ editions[e].status = "published"
        /\ ArticlesOf(articles, e) # <<>>
        /\ inv[i].editionId # e
        /\ inv[i].pc = "done"
        /\ inv[i].resp.status \in {"success", "error"}
        /\ inv[i].editionId # 0

C5_State ==
    \A e \in 1..Len(editions) :
        /\ editions[e].status \in {"draft", "published"}
        /\ editions[e].status = "draft" <=> editions[e].publishedAt = NULL

C5_Step ==
    \A e \in 1..Len(editions) :
        /\ editions'[e].status # editions[e].status =>
              (editions[e].status = "draft" /\ editions'[e].status = "published")
        /\ editions'[e].publishedAt # editions[e].publishedAt =>
              (editions[e].status = "draft" /\ editions'[e].status = "published")

\* C5: an Edition's status only ever goes from draft to published, once;
\* publishedAt is null exactly while the status is draft and is stamped by
\* the write that publishes.
C5_Monotone == []C5_State /\ [][C5_Step]_vars

C5_Witness ==
    \E e \in 1..Len(editions) :
        editions[e].status = "published" /\ editions[e].publishedAt # NULL


NumArticleSources == Len(ArticleSources)

RejectedSources(settled) ==
    {k \in 1..NumArticleSources : settled[k].st = "rejected"}

\* a non-empty strict subset of the article fetchers rejected and every
\* other article fetcher returned a non-empty list
PartialFailure(settled) ==
    /\ Len(settled) = Len(Fetchers)
    /\ RejectedSources(settled) # {}
    /\ RejectedSources(settled) # 1..NumArticleSources
    /\ \A k \in 1..NumArticleSources :
          settled[k].st = "fulfilled" => Len(settled[k].val) > 0

\* the invocation ran to its response, inserted its draft, and the database
\* accepted every well-formed statement it was sent
RanThrough(i) ==
    /\ inv[i].pc = "done"
    /\ inv[i].editionId # 0
    /\ ~inv[i].fault

\* C4: when a non-empty strict subset of the article fetchers rejects and the
\* others return non-empty lists, the run answers "success", its Edition is
\* published and holds exactly the top-K selection of the successful sources,
\* and every rejected source is reported with status "failure" and count 0.
C4_PartialFailure ==
    \A i \in InvIds :
        (RanThrough(i) /\ PartialFailure(inv[i].settled)) =>
            /\ inv[i].resp.status = "success"
            /\ editions[inv[i].editionId].status = "published"
            /\ ArticlesOf(articles, inv[i].editionId)
                  = ArticleRows(inv[i].editionId, AllArticles(inv[i].settled))
            /\ \A k \in RejectedSources(inv[i].settled) :
                  /\ inv[i].sourceResults[k].status = "failure"
                  /\ inv[i].sourceResults[k].count = 0

\* the invocation answered with an error after it had inserted its draft
Stuck(i) ==
    /\ inv[i].pc = "done"
    /\ inv[i].editionId # 0
    /\ inv[i].resp.status = "error"

C6_State ==
    \A i \in InvIds :
        Stuck(i) =>
            /\ Existing(inv[i].type, inv[i].date) = {inv[i].editionId}
            /\ editions[inv[i].editionId].status = "draft"
            /\ \A j \in InvIds :
                  (IsRerun(j, i) /\ inv[j].pc = "done") =>
                      /\ inv[j].resp.status = "skipped"
                      /\ inv[j].resp.editionId = inv[i].editionId

C6_Step ==
    \A i \in InvIds :
        Stuck(i) =>
            /\ editions'[inv[i].editionId] = editions[inv[i].editionId]
            /\ ArticlesOf(articles', inv[i].editionId)
                  = ArticlesOf(articles, inv[i].editionId)

AllFailed(settled) ==
    /\ Len(settled) = Len(Fetchers)
    /\ \A k \in 1..NumArticleSources :
          settled[k].st = "rejected" \/ settled[k].val = <<>>

\* C7: when every article source rejects or returns no articles, the run
\* inserts no Article row, publishes its Edition, answers "success" with
\* zero articles collected, and reports every article source as "failure".
C7_EmptyEdition ==
    \A i \in InvIds :
        (RanThrough(i) /\ AllFailed(inv[i].settled)) =>
            /\ ArticlesOf(articles, inv[i].editionId) = <<>>
            /\ editions[inv[i].editionId].status = "published"
            /\ inv[i].resp.http = 200
            /\ inv[i].resp.status = "success"
            /\ inv[i].resp.articlesCollected = 0
            /\ \A k \in 1..NumArticleSources :
                  /\ inv[i].resp.sources[k].source = ArticleSources[k]
                  /\ inv[i].resp.sources[k].status = "failure"
                  /\ inv[i].resp.sources[k].count = 0

C7_Witness ==
    \E i \in InvIds :
        /\ RanThrough(i)
        /\ AllFailed(inv[i].settled)
        /\ \E k \in 1..NumArticleSources : inv[i].settled[k].st = "rejected"
        /\ \E k \in 1..NumArticleSources : inv[i].settled[k].st = "fulfilled"
        /\ inv[i].resp.status = "success"

\* C8: no call of a source fetcher ends in a rejected promise, whatever the
\* upstream answers.
C8_NeverRejects ==
    \A k \in CallIds : calls[k].out.st # "rejected"

\* C9: a call whose first read missed on an expired entry and whose upstream
\* requests all failed returns the value of that entry when no later write
\* has replaced it.
C9_StaleFallback ==
    \A k \in CallIds :
        ( /\ calls[k].pc = "done"
          /\ calls[k].miss = "expired"
          /\ calls[k].called
          /\ calls[k].nOk = 0
          /\ Expired(cache[CACHE_KEY(calls[k].src)], clock) )
        => calls[k].out = Fulfilled(cache[CACHE_KEY(calls[k].src)].val)

\* the cache client is configured and fails every read and every write of
\* every fetcher
CacheDown == redis /\ \A s \in FetcherSet : world[s] = "cachefail"

\* C10: with a cache that fails every read and every write, every fetcher of
\* a run still resolves, no rejection is left unhandled, and the run answers
\* "success" with a published Edition.
C10_CacheFailureTolerated ==
    \A i \in InvIds :
        (CacheDown /\ RanThrough(i)) =>
            /\ \A k \in 1..Len(inv[i].settled) : inv[i].settled[k].st = "fulfilled"
            /\ ~unhandled
            /\ inv[i].resp.status = "success"
            /\ editions[inv[i].editionId].status = "published"

\* C11: a call of a credential-requiring fetcher (YouTube, ProductHunt,
\* weather) whose credential is not configured resolves to the empty result
\* and never issues an upstream request.
C11_NoCredential ==
    \A k \in CallIds :
        ( /\ calls[k].pc = "done"
          /\ NeedsCredential(calls[k].src)
          /\ ~calls[k].cred )
        => (calls[k].out = Fulfilled(<<>>) /\ ~calls[k].called)

\* the same fetchWithRetry call is still running after the step
Retried(c, d) == d.pc = "upstream" /\ d.sub = c.sub

C12_State ==
    \A k \in CallIds :
        HasRetry(calls[k].src) =>
            (calls[k].reqs <= MAX_RETRIES + 1 /\ calls[k].attempt <= MAX_RETRIES)

C12_Step ==
    \A k \in CallIds :
        LET c == calls[k]
            d == calls'[k]
        IN  (HasRetry(c.src) /\ c.pc = "upstream" /\ d # c) =>
                /\ Retried(c, d) =>
                      (d.last = "ratelimit" /\ d.reqs = c.reqs + 1 /\ d.reqs <= MAX_RETRIES)
                /\ d.last = "error" =>
                      (~Retried(c, d) /\ d.nOk = c.nOk)
                /\ (d.last = "ratelimit" /\ c.reqs = MAX_RETRIES) =>
                      (~Retried(c, d) /\ d.nOk = c.nOk)
                /\ (~Retried(c, d) /\ d.last # "ok" /\ ~Aggregated(c.src)) =>
                      d.pc = "read2"

C12_Terminates ==
    \A k \in CallIds :
        (HasRetry(calls[k].src) /\ calls[k].pc = "upstream")
            ~> (calls[k].pc # "upstream")

\* C12: one fetchWithRetry call issues at most MAX_RETRIES + 1 = 4 requests;
\* it issues a further request only after a 403/429 answer, ends with a
\* failure after any other error answer and after a 403/429 on its fourth
\* request, and it always ends.
C12_BoundedRetry == []C12_State /\ [][C12_Step]_vars /\ C12_Terminates

C12_Witness ==
    \E k \in CallIds :
        /\ calls[k].src = "github"
        /\ calls[k].pc = "read2"
        /\ calls[k].last = "ratelimit"
        /\ calls[k].reqs = MAX_RETRIES + 1

\* C13: an article fetcher gives up on a rate-limited upstream only after it
\* has issued MAX_RETRIES + 1 requests.
C13_RetryEverywhere ==
    \A k \in CallIds :
        ( /\ calls[k].src \in SeqRange(ArticleSources)
          /\ calls[k].pc \in {"read2", "done"}
          /\ calls[k].last = "ratelimit" )
        => calls[k].reqs = MAX_RETRIES + 1

C14_Step ==
    \A k \in CallIds :
        LET c == calls[k]
            d == calls'[k]
            key == CACHE_KEY(c.src)
        IN  ( /\ c.pc = "read1"
              /\ d # c
              /\ redis
              /\ Fresh(cache[key], clock)
              /\ d.out.st # "rejected" )
            => /\ d.pc = "done"
               /\ d.out = Fulfilled(cache[key].val)
               /\ ~d.called
               /\ d.nWrite = 0
               /\ cache' = cache

\* C14: when the first cache read of a fetcher call returns the value stored
\* under the fetcher's key, the call returns exactly that value, issues no
\* upstream request and writes nothing to the cache.
C14_CacheHit == [][C14_Step]_vars

C14_Witness ==
    \E k \in CallIds :
        /\ calls[k].pc = "done"
        /\ calls[k].nRead = 1
        /\ calls[k].miss = "none"
        /\ calls[k].out.st = "fulfilled"
        /\ calls[k].out.val # <<>>
        /\ calls[k].out.val = cache[CACHE_KEY(calls[k].src)].val
        /\ ~calls[k].called

\* the outcome of fetcher k when it runs alone against the key space the
\* fan-out of invocation i started from
Alone(i, k) ==
    FetchRun(Fetchers[k], inv'[i].cache0, clock, redis, world[Fetchers[k]]).c.out

C15_State ==
    \A i \in InvIds :
        inv[i].editionId # 0 =>
            /\ inv[i].pc \in {"persist", "publish", "done"} =>
                  /\ Len(inv[i].settled) = Len(Fetchers)
                  /\ \A k \in 1..Len(Fetchers) : inv[i].settled[k] # Pending
            /\ inv[i].pc \in {"publish", "done"} =>
                  /\ inv[i].allArticles = AllArticles(inv[i].settled)
                  /\ SubSeq(inv[i].sourceResults, 1, NumArticleSources)
                        = ArticleEntries(inv[i].settled)
            /\ (inv[i].pc = "done" /\ inv[i].resp.status = "success") =>
                  ArticlesOf(articles, inv[i].editionId)
                     = ArticleRows(inv[i].editionId, AllArticles(inv[i].settled))

C15_Step ==
    \A i \in InvIds :
        inv[i].pc = "fanout" =>
            /\ articles' = articles
            /\ editions' = editions
            /\ \A k \in 1..Len(Fetchers) :
                  LET before == Slots(inv[i].settled)[k]
                      after == Slots(inv'[i].settled)[k]
                  IN  /\ before # Pending => after = before
                      /\ (before = Pending /\ after # Pending) => after = Alone(i, k)

\* C15: a run reaches the persist step only after all eleven fetches have
\* settled; whatever the order in which they settle, each fetch ends as it
\* would have ended alone, so the persisted Articles and the per-source
\* summary do not depend on the order and a rejected fetch changes no other
\* source's contribution.
C15_AllSettled == []C15_State /\ [][C15_Step]_vars

C15_Witness ==
    \E i \in InvIds :
        /\ inv[i].pc = "fanout"
        /\ inv[i].settled # <<>>
        /\ inv[i].settled[1].st = "rejected"
        /\ inv[i].settled[2] = Pending
        /\ inv[i].settled[4].st = "fulfilled"
        /\ inv[i].settled[4].val # <<>>
        /\ inv[i].settled[11].st = "fulfilled"

\* round(100 * (raw - min) / (max - min)) in exact arithmetic, halves going
\* up, clamped to 0..100
ExactNormalized(raw, range) ==
    LET num == (raw - range.min) * 100
        den == range.max - range.min
        rounded == (2 * num + den) \div (2 * den)
    IN  IF rounded < 0 THEN 0 ELSE IF rounded > 100 THEN 100 ELSE rounded

\* C16: normalizeScores returns the list it was given with every score
\* replaced by clamp(0, 100, round(100 * (raw - min) / (max - min))) for the
\* source's range and nothing else changed.
C16_Normalize ==
    unit.pc \in {"normalized", "selected"} =>
        /\ Len(unit.normalized) = Len(unit.input)
        /\ \A i \in 1..Len(unit.input) :
              unit.normalized[i] =
                  [unit.input[i] EXCEPT
                      !.score = ExactNormalized(@, SCORE_RANGES(unit.source))]

\* the positions of the input that selected[j] can stand for are told apart
\* by externalId, which FetchedList sets to the position in the input
PositionOf(a) == a.externalId

C17_State ==
    unit.pc = "selected" =>
        LET in == unit.normalized
            out == unit.selected
            kept == {PositionOf(out[j]) : j \in 1..Len(out)}
        IN  /\ Len(out) = Min(unit.n, Len(in))
            /\ \A j \in 1..Len(out) :
                  PositionOf(out[j]) \in 1..Len(in) /\ out[j] = in[PositionOf(out[j])]
            /\ Cardinality(kept) = Len(out)
            /\ \A j1, j2 \in 1..Len(out) :
                  j1 < j2 =>
                      \/ out[j1].score > out[j2].score
                      \/ /\ out[j1].score = out[j2].score
                         /\ PositionOf(out[j1]) < PositionOf(out[j2])
            /\ \A i \in (1..Len(in)) \ kept : \A j \in 1..Len(out) :
                  \/ in[i].score < out[j].score
                  \/ (in[i].score = out[j].score /\ PositionOf(out[j]) < i)
            /\ unit.selected = unit.first

C17_Step ==
    unit.pc \in {"normalized", "selected"} => unit'.normalized = unit.normalized

\* C17: selectTopN(list, K) returns min(K, |list|) articles of the list in
\* descending score order with equal scores in their original order, leaves
\* out no article that would sort before an included one, returns the same
\* result when applied again, and does not change the list it was given.
C17_SelectTopN == []C17_State /\ [][C17_Step]_vars

C17_Witness ==
    /\ unit.pc = "selected"
    /\ unit.applied = 2
    /\ Len(unit.normalized) = 3
    /\ unit.n = 2
    /\ unit.normalized[1].score < unit.normalized[2].score
    /\ unit.normalized[2].score = unit.normalized[3].score
    /\ unit.selected = <<unit.normalized[2], unit.normalized[3]>>

\* the Article rows of Edition e that carry source s
RowsOfSource(e, s) ==
    {r \in 1..Len(articles) : articles[r].editionId = e /\ articles[r].source = s}

RECURSIVE SumTopN(_)
SumTopN(k) ==
    IF k = 0 THEN 0 ELSE TOP_N_PER_SOURCE(ArticleSources[k]) + SumTopN(k - 1)

\* C18: an Edition holds at most K Articles of each source, K being the
\* source's entry in TOP_N_PER_SOURCE, and therefore at most 46 Articles.
C18_EditionSize ==
    \A e \in 1..Len(editions) :
        /\ \A s \in SeqRange(ArticleSources) :
              Cardinality(RowsOfSource(e, s)) <= TOP_N_PER_SOURCE(s)
        /\ \A r \in 1..Len(articles) :
              articles[r].source \in SeqRange(ArticleSources)
        /\ Len(ArticlesOf(articles, e)) <= SumTopN(NumArticleSources)
        /\ SumTopN(NumArticleSources) = 46

C18_Witness ==
    \E i \in InvIds, k \in 1..NumArticleSources :
        /\ RanThrough(i)
        /\ inv[i].resp.status = "success"
        /\ Len(inv[i].settled[k].val) > TOP_N_PER_SOURCE(ArticleSources[k])
        /\ Cardinality(RowsOfSource(inv[i].editionId, ArticleSources[k]))
              = TOP_N_PER_SOURCE(ArticleSources[k])

RECURSIVE SumCounts(_, _)
\* the sum of count over the first k entries of a summary
SumCounts(entries, k) ==
    IF k = 0 THEN 0 ELSE entries[k].count + SumCounts(entries, k - 1)

\* the entries of a summary that belong to article sources
ArticleEntriesOf(sources) ==
    {k \in 1..Len(sources) : sources[k].source \in SeqRange(ArticleSources)}

\* C20: in a success result articlesCollected is the number of Article rows
\* of the Edition and the sum of count over the article-source entries, and
\* each of the nine article sources has exactly one entry in the summary.
C20_Summary ==
    \A i \in InvIds :
        (inv[i].pc = "done" /\ inv[i].resp.status = "success") =>
            LET r == inv[i].resp
                mine == ArticleEntriesOf(r.sources)
            IN  /\ r.articlesCollected = Len(ArticlesOf(articles, r.editionId))
                /\ mine = 1..NumArticleSources
                /\ r.articlesCollected = SumCounts(r.sources, NumArticleSources)
                /\ \A s \in SeqRange(ArticleSources) :
                      Cardinality({k \in mine : r.sources[k].source = s}) = 1
                /\ \A k \in mine :
                      r.sources[k].count
                         = Cardinality(RowsOfSource(r.editionId, r.sources[k].source))

C20_Witness ==
    \E i \in InvIds :
        /\ inv[i].pc = "done"
        /\ inv[i].resp.status = "success"
        /\ inv[i].resp.articlesCollected >= 8
        /\ \E k \in 1..NumArticleSources : inv[i].settled[k].st = "rejected"
        /\ \E k \in 1..NumArticleSources : inv[i].resp.sources[k].count = 5
        /\ \E k \in 1..NumArticleSources : inv[i].resp.sources[k].count = 3

\* C19: a call of an article fetcher returns at most the fetcher's cap of
\* articles, however many items the upstream answers carry.
C19_FetcherCap ==
    \A k \in CallIds :
        ( /\ calls[k].pc = "done"
          /\ calls[k].src \in SeqRange(ArticleSources)
          /\ calls[k].out.st = "fulfilled" )
        => Len(calls[k].out.val) <= FetcherCap(calls[k].src)

\* C21: a request whose Authorization header is not the configured bearer
\* token is answered 401 by the step that receives it, which reads and writes
\* neither the Edition Store nor the cache and calls no fetcher.
C21_Unauthorized ==
    [][\A i \in InvIds :
          Start(i, "invalid") =>
              /\ inv'[i].pc = "done"
              /\ inv'[i].resp.http = 401
              /\ inv'[i].resp.status = "unauthorized"
              /\ inv'[i].editionId = 0
              /\ editions' = editions
              /\ articles' = articles
              /\ cache' = cache]_vars

C22_State ==
    \A i \in InvIds :
        inv[i].pc = "done" =>
            /\ inv[i].resp.http \in {200, 401, 500}
            /\ inv[i].resp.status \in {"success", "skipped"} => inv[i].resp.http = 200
            /\ inv[i].resp.status = "error" <=> inv[i].resp.http = 500
            /\ inv[i].resp.status = "error" => inv[i].resp.sources = inv[i].sourceResults

\* what sourceResults holds when the statement the invocation awaits throws
GatheredAt(r) ==
    CASE r.pc = "insert" -> <<>>
      [] r.pc = "persist" -> ArticleEntries(r.settled)
      [] r.pc = "publish" ->
            r.sourceResults \o
            <<WeatherEntry(r.settled[Len(ArticleSources) + 1]),
              StocksEntry(r.settled[Len(ArticleSources) + 2])>>
      [] OTHER -> <<>>

C22_Step ==
    \A i \in InvIds :
        LET r == inv[i]
            d == inv'[i]
            written == CASE r.pc = "insert" -> editions' # editions
                         [] r.pc = "persist" ->
                               (articles' # articles \/ AllArticles(r.settled) = <<>>)
                         [] r.pc = "publish" -> editions' # editions
                         [] OTHER -> TRUE
        IN  (r.pc \in {"insert", "persist", "publish"} /\ d # r) =>
                /\ ~written =>
                      /\ d.pc = "done"
                      /\ d.resp.http = 500
                      /\ d.resp.status = "error"
                      /\ d.resp.sources = GatheredAt(r)
                /\ written => d.resp.status # "error"

\* C22: when the draft insert, the Article batch insert or the publish update
\* fails, the invocation answers HTTP 500 with status "error" and the
\* per-source results gathered up to that statement; a success and a skipped
\* answer carry HTTP 200.
C22_ErrorResult == []C22_State /\ [][C22_Step]_vars

C22_Witness ==
    \E i, j \in InvIds :
        /\ inv[i].pc = "done"
        /\ inv[i].resp.http = 500
        /\ inv[i].fault
        /\ Len(inv[i].resp.sources) = NumArticleSources
        /\ \E k \in 1..NumArticleSources : inv[i].resp.sources[k].status = "success"
        /\ \E k \in 1..NumArticleSources : inv[i].resp.sources[k].status = "failure"
        /\ inv[j].pc = "done"
        /\ inv[j].resp.status = "skipped"
        /\ inv[j].resp.http = 200

\* C23: with a cache client configured, the step in which an invocation finds
\* the Edition of its slot already present leaves the widget key holding a
\* snapshot written at that time, with the widget TTL.
C23_WidgetRefresh ==
    [][\A i \in InvIds :
          (redis /\ inv[i].pc = "check" /\ inv'[i].pc = "done") =>
              /\ inv'[i].resp.status = "skipped"
              /\ cache'[WIDGET_CACHE_KEY].present
              /\ cache'[WIDGET_CACHE_KEY].exp = clock + WIDGET_CACHE_TTL]_vars

(***************************************************************************)
(* Edition readers (getEdition, getLatestEdition) next to the route        *)
(***************************************************************************)
ReadTypes == {"morning", "evening"}

ReadDates == {0, 1}

\* hidden sources of the session's user; none for a visitor without session
HiddenSourceSets == {{}, {"reddit"}}

\* the rows of a slot whatever their status
SlotRows_anyStatus(type, date) ==
    {e \in 1..Len(editions) : editions[e].type = type /\ editions[e].date = date}

\* where(and(eq(type), eq(date), eq(status, "published")))
SlotRows(type, date) ==
    {e \in 1..Len(editions) :
        /\ editions[e].type = type
        /\ editions[e].date = date
        /\ editions[e].status = "published"}

\* where(eq(status, "published")).orderBy(desc(publishedAt)).limit(1)
LatestRows ==
    LET pub == {e \in 1..Len(editions) : editions[e].status = "published"}
    IN  {e \in pub : \A f \in pub : editions[f].publishedAt <= editions[e].publishedAt}

\* applyHiddenFilters, as far as it filters by source
applyHiddenFilters(rows, hiddenSources) ==
    LET Shown(r) == r.source \notin hiddenSources IN SelectSeq(rows, Shown)

EditionData(id, rows) == <<[id |-> id, allArticles |-> rows]>>

\* a page render calls getEdition(type, date)
CallGetEdition(type, date) ==
    /\ reader.pc \in {"idle", "done"}
    /\ reader' = [IdleReader EXCEPT !.pc = "edition", !.fn = "getEdition",
                                    !.type = type, !.date = date]
    /\ UNCHANGED <<pipelineVars, hideVars, markVars>>

\* a page render calls getLatestEdition()
CallGetLatestEdition ==
    /\ reader.pc \in {"idle", "done"}
    /\ reader' = [IdleReader EXCEPT !.pc = "latest", !.fn = "getLatestEdition"]
    /\ UNCHANGED <<pipelineVars, hideVars, markVars>>

\* getLatestEdition's select; with a row it goes on into getEdition
SelectLatest ==
    /\ reader.pc = "latest"
    /\ IF LatestRows = {}
       THEN reader' = [reader EXCEPT !.pc = "done"]
       ELSE \E e \in LatestRows :
               reader' = [reader EXCEPT !.pc = "edition",
                                        !.type = editions[e].type,
                                        !.date = editions[e].date]
    /\ UNCHANGED <<pipelineVars, hideVars, markVars>>

\* getEdition's first select; passed keeps the rows of the slot that the
\* status condition left out
SelectEdition ==
    /\ reader.pc = "edition"
    /\ LET passed == Existing(reader.type, reader.date) \ SlotRows(reader.type, reader.date)
       IN  IF SlotRows(reader.type, reader.date) = {}
           THEN reader' = [reader EXCEPT !.pc = "done", !.passed = passed]
           ELSE \E e \in SlotRows(reader.type, reader.date) :
                   reader' = [reader EXCEPT !.pc = "articles", !.id = e,
                                            !.passed = passed]
    /\ UNCHANGED <<pipelineVars, hideVars, markVars>>

\* getEdition's second select, ordered by score, and the hidden-item filter
SelectArticles ==
    /\ reader.pc = "articles"
    /\ \E hidden \in HiddenSourceSets :
          LET Mine(r) == r.editionId = reader.id
              rows == SortDesc(SelectSeq(articles, Mine), "score")
          IN  reader' = [reader EXCEPT
                            !.pc = "done",
                            !.result = EditionData(reader.id,
                                                   applyHiddenFilters(rows, hidden))]
    /\ UNCHANGED <<pipelineVars, hideVars, markVars>>

\* the worlds under which readers run next to the route: every source
\* delivers, or every source but the pull-request fetcher does
InitRead ==
    /\ Init
    /\ redis
    /\ cronSecret
    /\ \E b \in {"ok", "empty"} :
          world = [s \in FetcherSet |-> IF s = "github_prs" THEN b ELSE "ok"]

NextRead ==
    \/ \E i \in InvIds : StartAlone(i, "valid")
    \/ \E i \in InvIds : Check(i)
    \/ \E i \in InvIds : InsertDraft(i)
    \/ \E i \in InvIds : Settle(i)
    \/ \E i \in InvIds : Persist(i)
    \/ \E i \in InvIds : Publish(i)
    \/ AdvanceToCron
    \/ \E type \in ReadTypes, date \in ReadDates : CallGetEdition(type, date)
    \/ CallGetLatestEdition
    \/ SelectLatest
    \/ SelectEdition
    \/ SelectArticles

\* page renders read the Edition Store while the route runs
SpecRead == InitRead /\ [][NextRead]_vars

C24_State ==
    /\ reader.id # 0 => editions[reader.id].status = "published"
    /\ reader.result # <<>> =>
          LET data == reader.result[1]
          IN  /\ data.id = reader.id
              /\ \A k \in 1..Len(data.allArticles) :
                    /\ data.allArticles[k].editionId = data.id
                    /\ \E r \in 1..Len(articles) : articles[r] = data.allArticles[k]
    /\ \A e \in reader.passed : reader.id # e

C24_Step ==
    /\ (reader' # reader) => (editions' = editions /\ articles' = articles)
    /\ (reader.pc = "edition" /\ reader'.pc = "articles") =>
          /\ editions[reader'.id].status = "published"
          /\ editions[reader'.id].type = reader.type
          /\ editions[reader'.id].date = reader.date

\* C24: a call of getEdition or getLatestEdition selects only rows whose
\* status is published and returns only Articles of the row it selected, at
\* every point of a collection run that is under way next to it.
C24_PublishedOnly == []C24_State /\ [][C24_Step]_vars

C24_Witness ==
    \E i \in InvIds :
        /\ inv[i].pc = "publish"
        /\ ArticlesOf(articles, inv[i].editionId) # <<>>
        /\ reader.pc = "done"
        /\ reader.fn = "getEdition"
        /\ reader.type = inv[i].type
        /\ reader.date = inv[i].date
        /\ reader.passed = {inv[i].editionId}
        /\ reader.result = <<>>
        /\ \E e \in 1..Len(editions) : editions[e].status = "published"

(***************************************************************************)
(* Hiding items: handleHide in the client, hideItem on the server          *)
(***************************************************************************)
HideTargets ==
    {<<"article", "a1">>, <<"source", "hackernews">>, <<"topic", "Rust">>}

\* the list of the hidden slice that holds targets of a type
ListOf(type) ==
    CASE type = "article" -> "hiddenArticleIds"
      [] type = "source" -> "hiddenSources"
      [] type = "topic" -> "hiddenTopics"

Includes(list, x) == \E i \in 1..Len(list) : list[i] = x

\* if (!list.includes(x)) list.push(x)
PushNew(list, x) == IF Includes(list, x) THEN list ELSE Append(list, x)

\* const index = list.indexOf(x); if (index !== -1) list.splice(index, 1)
SpliceOut(list, x) ==
    IF ~Includes(list, x) THEN list
    ELSE LET index == CHOOSE i \in 1..Len(list) :
                          list[i] = x /\ \A j \in 1..(i - 1) : list[j] # x
         IN  SubSeq(list, 1, index - 1) \o SubSeq(list, index + 1, Len(list))

\* the reducers hideArticle, hideSource, hideTopic
hideReducer(state, type, id) ==
    [state EXCEPT ![ListOf(type)] = PushNew(@, id)]

\* the reducers revertHideArticle, revertHideSource, revertHideTopic
revertHideReducer(state, type, id) ==
    [state EXCEPT ![ListOf(type)] = SpliceOut(@, id)]

HiddenRow(type, id) == [targetType |-> type, targetId |-> id]

\* getHiddenState(): the target ids of the user's rows grouped by type
getHiddenState(rows) ==
    LET OfType(type) ==
            LET Is(r) == r.targetType = type
                sel == SelectSeq(rows, Is)
            IN  [i \in 1..Len(sel) |-> sel[i].targetId]
    IN  [hiddenArticleIds |-> OfType("article"),
         hiddenSources |-> OfType("source"),
         hiddenTopics |-> OfType("topic")]

\* rows matching where(and(eq(userId), eq(targetType), eq(targetId)))
HiddenRowsOf(type, id) ==
    {r \in 1..Len(hiddenItems) : hiddenItems[r] = HiddenRow(type, id)}

\* the cards and menus the page shows are those of articles no list hides
Shown(type, id) == ~Includes(hiddenState[ListOf(type)], id)

\* rows the user hid in an earlier visit; the page initializes from them
EarlierRows == {<<>>, <<HiddenRow("article", "a0")>>}

PipelineIdle ==
    /\ clock = 6 * 3600
    /\ advances = 0
    /\ redis = FALSE
    /\ cache = EmptyCache
    /\ unhandled = FALSE
    /\ world = [s \in FetcherSet |-> "ok"]
    /\ calls = [k \in CallIds |-> IdleCall]
    /\ cronSecret = TRUE
    /\ editions = <<>>
    /\ articles = <<>>
    /\ inv = [i \in InvIds |-> IdleInv]
    /\ unit = IdleUnit

InitHide ==
    /\ PipelineIdle
    /\ reader = IdleReader
    /\ hiddenItems \in EarlierRows
    /\ hiddenState = getHiddenState(hiddenItems)
    /\ hides = [k \in HideIds |-> IdleHide]
    /\ bookmarks = {}
    /\ bookmarkedIds = <<>>
    /\ marks = [k \in MarkIds |-> IdleMark]

\* handleHide(action) up to its await: the optimistic update, then the call
\* of the server action
HandleHide(k, type, id) ==
    /\ hides[k].pc = "idle"
    /\ \A j \in HideIds : j < k => hides[j].pc # "idle"
    /\ Shown(type, id)
    /\ hiddenState' = hideReducer(hiddenState, type, id)
    /\ hides' = [hides EXCEPT ![k] =
          [IdleHide EXCEPT !.pc = "auth", !.type = type, !.id = id, !.ui = TRUE,
                           !.wasHidden = ~Shown(type, id)]]
    /\ UNCHANGED <<pipelineVars, reader, markVars, hiddenItems>>

\* hideItem called from another tab of the same user
HideElsewhere(k, type, id) ==
    /\ hides[k].pc = "idle"
    /\ \A j \in HideIds : j < k => hides[j].pc # "idle"
    /\ hides' = [hides EXCEPT ![k] =
          [IdleHide EXCEPT !.pc = "auth", !.type = type, !.id = id]]
    /\ UNCHANGED <<pipelineVars, reader, markVars, hiddenItems, hiddenState>>

\* const session = await auth()
HideAuth(k) ==
    /\ hides[k].pc = "auth"
    /\ \E signedIn \in BOOLEAN :
          hides' = [hides EXCEPT
              ![k].pc = IF signedIn THEN "select" ELSE "settled",
              ![k].result = IF signedIn THEN "none" ELSE "notauth"]
    /\ UNCHANGED <<pipelineVars, reader, markVars, hiddenItems, hiddenState>>

\* the check for an existing row
HideSelect(k) ==
    /\ hides[k].pc = "select"
    /\ \E dbOk \in BOOLEAN :
          hides' = [hides EXCEPT
              ![k].pc = IF dbOk /\ HiddenRowsOf(hides[k].type, hides[k].id) = {}
                        THEN "insert" ELSE "settled",
              ![k].result = IF ~dbOk THEN "throw"
                            ELSE IF HiddenRowsOf(hides[k].type, hides[k].id) = {}
                            THEN "none" ELSE "success"]
    /\ UNCHANGED <<pipelineVars, reader, markVars, hiddenItems, hiddenState>>

\* db.insert(hiddenItems).values(...)
HideInsert(k) ==
    /\ hides[k].pc = "insert"
    /\ \E dbOk \in BOOLEAN :
          /\ hiddenItems' = IF dbOk
                            THEN Append(hiddenItems, HiddenRow(hides[k].type, hides[k].id))
                            ELSE hiddenItems
          /\ hides' = [hides EXCEPT
                ![k].pc = "settled",
                ![k].result = IF dbOk THEN "inserted" ELSE "throw"]
    /\ UNCHANGED <<pipelineVars, reader, markVars, hiddenState>>

\* the caller gets the answer: handleHide reverts when result.success is
\* false; when the action threw, the await throws and handleHide ends there
HideSettle(k) ==
    /\ hides[k].pc = "settled"
    /\ hiddenState' = IF hides[k].ui /\ hides[k].result = "notauth"
                      THEN revertHideReducer(hiddenState, hides[k].type, hides[k].id)
                      ELSE hiddenState
    /\ hides' = [hides EXCEPT ![k].pc = "done"]
    /\ UNCHANGED <<pipelineVars, reader, markVars, hiddenItems>>

NextHide ==
    \/ \E k \in HideIds, t \in HideTargets : HandleHide(k, t[1], t[2])
    \/ \E k \in HideIds, t \in HideTargets : HideElsewhere(k, t[1], t[2])
    \/ \E k \in HideIds : HideAuth(k)
    \/ \E k \in HideIds : HideSelect(k)
    \/ \E k \in HideIds : HideInsert(k)
    \/ \E k \in HideIds : HideSettle(k)

\* hideItem calls of one user, from the page and from other tabs, overlapping
SpecHide == InitHide /\ [][NextHide]_vars

\* C25: the hidden_items table never holds two rows for one (user,
\* targetType, targetId), and a hideItem call that finds its target hidden
\* answers success without inserting.
C25_HideIdempotent ==
    /\ \A r1, r2 \in 1..Len(hiddenItems) : hiddenItems[r1] = hiddenItems[r2] => r1 = r2
    /\ \A k \in HideIds :
          hides[k].result = "success" => HiddenRowsOf(hides[k].type, hides[k].id) # {}

\* the call ended on a path with no upstream result: its credential is
\* missing and the first read found nothing, or every request it issued failed
Unrecoverable(d) ==
    /\ d.pc = "done"
    /\ \/ NeedsCredential(d.src) /\ ~d.cred /\ ~d.called /\ (d.nRead = 0 \/ d.miss # "none")
       \/ d.called /\ d.nOk = 0

\* C26: a fetcher call that ends without an upstream result has read its
\* cache key exactly once more after the first read and returns the value
\* that read finds, the empty list when it finds none.
C26_SecondRead ==
    [][\A k \in CallIds :
          LET c == calls[k]
              d == calls'[k]
              key == CACHE_KEY(d.src)
          IN  (c.pc # "done" /\ Unrecoverable(d)) =>
                  /\ d.nRead = 2
                  /\ d.out = IF redis /\ Fresh(cache[key], clock)
                             THEN Fulfilled(cache[key].val)
                             ELSE Fulfilled(<<>>)]_vars

\* C27: in every result summary an article-source entry has status "success"
\* exactly when its count is at least 1 and exactly when the source's fetch
\* was fulfilled with a non-empty list; a fetch fulfilled with the empty list
\* is reported as "failure" with count 0 and error "No articles returned".
C27_SuccessIffCount ==
    \A i \in InvIds :
        (inv[i].pc = "done" /\ inv[i].resp.sources # <<>>) =>
            \A k \in 1..NumArticleSources :
                LET entry == inv[i].resp.sources[k]
                    res == inv[i].settled[k]
                IN  /\ entry.source = ArticleSources[k]
                    /\ entry.status \in {"success", "failure"}
                    /\ entry.status = "success" <=> entry.count >= 1
                    /\ entry.status = "success" <=>
                          (res.st = "fulfilled" /\ Len(res.val) > 0)
                    /\ (res.st = "fulfilled" /\ res.val = <<>>) =>
                          entry = SourceResult(ArticleSources[k], "failure", 0,
                                               "No articles returned")
                    /\ res.st = "rejected" =>
                          (entry.status = "failure" /\ entry.count = 0)

C27_Witness ==
    \E i \in InvIds :
        /\ inv[i].pc = "done"
        /\ inv[i].resp.status = "success"
        /\ \E k \in 1..NumArticleSources :
              /\ inv[i].settled[k] = Fulfilled(<<>>)
              /\ inv[i].resp.sources[k].error = "No articles returned"
        /\ \E k \in 1..NumArticleSources :
              /\ inv[i].resp.sources[k].status = "success"
              /\ inv[i].resp.sources[k].count >= 2

\* C28: every Article the route hands to the batch insert carries a source of
\* the store's enumeration, and a run that collected Articles and met no
\* database fault publishes its Edition.
C28_SourceInEnum ==
    \A i \in InvIds :
        /\ \A k \in 1..Len(inv[i].allArticles) :
              inv[i].allArticles[k].source \in articleSourceEnum
        /\ (RanThrough(i) /\ inv[i].allArticles # <<>>) =>
              /\ inv[i].resp.status = "success"
              /\ editions[inv[i].editionId].status = "published"

(***************************************************************************)
(* Bookmarks: handleBookmark in the client, addBookmark and removeBookmark *)
(* on the server                                                           *)
(***************************************************************************)
MarkArticles == {"a1", "a2"}

\* the reducers toggleBookmark and revertBookmark: the same toggle
toggleBookmark(ids, id) ==
    IF Includes(ids, id) THEN SpliceOut(ids, id) ELSE Append(ids, id)

revertBookmark(ids, id) == toggleBookmark(ids, id)

\* how a server action can end: { success: true }, one of the
\* { success: false } answers, or an exception of a statement outside try
AddOutcomes == {"success", "notauth", "notfound", "dbfail", "throw"}

RemoveOutcomes == {"success", "notauth", "throw"}

Succeeded(result) == result = "success"

Threw(result) == result = "throw"

\* the bookmarks rows after the server action: only an action that gets
\* through to its statement changes them
RowsAfter(rows, m, result) ==
    IF ~Succeeded(result) THEN rows
    ELSE IF m.wasBookmarked THEN rows \ {m.id}
    ELSE rows \cup {m.id}

\* the article ids the user had bookmarked in an earlier visit
EarlierBookmarks == {<<>>, <<"a1">>}

InitMark ==
    /\ PipelineIdle
    /\ reader = IdleReader
    /\ hiddenItems = <<>>
    /\ hiddenState = NoHidden
    /\ hides = [k \in HideIds |-> IdleHide]
    /\ bookmarkedIds \in EarlierBookmarks
    /\ bookmarks = SeqRange(bookmarkedIds)
    /\ marks = [k \in MarkIds |-> IdleMark]

\* handleBookmark(article) up to its await: isCurrentlyBookmarked, the
\* optimistic toggle, then the call of the server action
HandleBookmark(k, id) ==
    /\ marks[k].pc = "idle"
    /\ \A j \in MarkIds : j < k => marks[j].pc # "idle"
    /\ bookmarkedIds' = toggleBookmark(bookmarkedIds, id)
    /\ marks' = [marks EXCEPT ![k] =
          [IdleMark EXCEPT !.pc = "server", !.id = id,
                           !.wasBookmarked = Includes(bookmarkedIds, id)]]
    /\ UNCHANGED <<pipelineVars, reader, hideVars, bookmarks>>

\* removeBookmark or addBookmark runs on the server; the actions of one
\* client run one after another, in the order of the clicks
ServerAction(k) ==
    /\ marks[k].pc = "server"
    /\ \A j \in MarkIds : j < k => marks[j].pc = "done"
    /\ \E result \in IF marks[k].wasBookmarked THEN RemoveOutcomes ELSE AddOutcomes :
          /\ bookmarks' = RowsAfter(bookmarks, marks[k], result)
          /\ marks' = [marks EXCEPT ![k].pc = "settled", ![k].result = result]
    /\ UNCHANGED <<pipelineVars, reader, hideVars, bookmarkedIds>>

\* handleBookmark resumes: it reverts when result.success is false; when the
\* action threw, the await throws and handleBookmark ends there
MarkSettle(k) ==
    /\ marks[k].pc = "settled"
    /\ bookmarkedIds' = IF Succeeded(marks[k].result) \/ Threw(marks[k].result)
                        THEN bookmarkedIds
                        ELSE revertBookmark(bookmarkedIds, marks[k].id)
    /\ marks' = [marks EXCEPT ![k].pc = "done"]
    /\ UNCHANGED <<pipelineVars, reader, hideVars, bookmarks>>

NextMark ==
    \/ \E k \in MarkIds, id \in MarkArticles : HandleBookmark(k, id)
    \/ \E k \in MarkIds : ServerAction(k)
    \/ \E k \in MarkIds : MarkSettle(k)

\* clicks on bookmark buttons of one page, also while an action is pending
SpecMark == InitMark /\ [][NextMark]_vars

\* C29: once no bookmark server action is pending, the client's bookmarkedIds
\* holds exactly the articles the server has a bookmark for.
C29_BookmarkSync ==
    (\A k \in MarkIds : marks[k].pc \in {"idle", "done"}) =>
        \A id \in MarkArticles : Includes(bookmarkedIds, id) <=> id \in bookmarks

\* the hidden slice with what the click of call k added taken out again
BeforeClick(k) ==
    IF hides[k].wasHidden THEN hiddenState
    ELSE revertHideReducer(hiddenState, hides[k].type, hides[k].id)

FailedHide(result) == result \in {"notauth", "throw"}

\* C30: when the hideItem call of a handleHide fails, the step in which
\* handleHide gets the answer leaves the three hidden lists as they would be
\* without that click.
C30_HideReverted ==
    [][\A k \in HideIds :
          ( /\ hides[k].ui
            /\ hides[k].pc = "settled"
            /\ hides'[k].pc = "done"
            /\ FailedHide(hides[k].result) )
          => hiddenState' = BeforeClick(k)]_vars

====
